---- MODULE Spec2Model ----
(***************************************************************************)
(* Model of the consensus coordinator (Durable Object), the proposer's     *)
(* trigger handler and the validator of the serverless blockchain MVP.     *)
(*                                                                         *)
(* Hashes are modelled as collision-free: the hash of a value is the value *)
(* wrapped in a record, so two hashes are equal exactly when their         *)
(* pre-images are.  An Ed25519 signature is the pair (signer, message);    *)
(* only the holder of a key can create a signature of that key.            *)
(*                                                                         *)
(* Time is abstracted to what the code compares: the age of the processing *)
(* lock against consensusTimeoutMs, whether the armed alarm is due, and    *)
(* whether more than the backup interval has passed since lastBackupTime.  *)
(***************************************************************************)
EXTENDS Integers, Sequences, FiniteSets, TLC

\* ------------------------------------------------------------------ bounds
MaxQueue == 2
MaxHeight == 2
MaxNonce == 1
MaxAmount == 2
MaxTriggers == 2
MaxVotes == 2
MaxDisturbances == 1

\* ------------------------------------------------------------ configuration
blockMaxTxs == 20
consensusTimeoutMs == 3000
ProposerMinVotes == 2

Addresses == {"A", "B"}
\* the accounts whose holders submit transfers
Senders == {"A"}
Premine == [a \in Addresses |-> IF a = "A" THEN 2 ELSE 1]
GenesisValidators == {"node-1", "node-2"}
\* a key pair that is not in the validator set
OutsiderKey == "outsider"
PROPOSER_ID == "proposer-0"
ValidatorOrder == <<"node-1", "node-2">>
\* invocations of the trigger handler that can be in flight together
Triggers == 1..MaxTriggers

\* the API parses any integer as an amount, BigInt(body.amount); the negative
\* amount of the model is larger than the whole supply
Supply == Premine["A"] + Premine["B"]
Amounts == {-(Supply + 1)} \cup (1..MaxAmount)
Nonces == 0..MaxNonce

\* ------------------------------------------------------------------ hashing
sha256Hex(data) == [sha256 |-> data]

GENESIS_HASH == [zero |-> TRUE]

hashTransaction(from, to, amount, nonce) ==
    sha256Hex([from |-> from, to |-> to, amount |-> amount, nonce |-> nonce])

MkTx(from, to, amount, nonce) ==
    [from |-> from, to |-> to, amount |-> amount, nonce |-> nonce,
     hash |-> hashTransaction(from, to, amount, nonce)]

\* the transactions a client can sign and submit
Transactions ==
    { MkTx(f, t, a, n) : f \in Addresses, t \in Addresses, a \in Amounts, n \in Nonces }

AllTxs == { tx \in Transactions : tx.from \in Senders /\ tx.from # tx.to }

hashBlock(header) == sha256Hex(header)

RECURSIVE MerkleLevel(_)
MerkleLevel(level) ==
    IF Len(level) <= 1 THEN level
    ELSE <<sha256Hex(<<level[1], level[2]>>)>> \o MerkleLevel(SubSeq(level, 3, Len(level)))

RECURSIVE MerkleReduce(_)
MerkleReduce(level) ==
    IF Len(level) = 1 THEN level[1] ELSE MerkleReduce(MerkleLevel(level))

\* the empty string that computeMerkleRoot hashes for an empty list, as a
\* record like all other hashed data
EmptyString == [text |-> ""]

computeMerkleRoot(hashes) ==
    IF Len(hashes) = 0 THEN sha256Hex(EmptyString)
    ELSE IF Len(hashes) = 1 THEN hashes[1]
    ELSE MerkleReduce(hashes)

TxHashes(txs) == [i \in 1..Len(txs) |-> txs[i].hash]

\* ---------------------------------------------------------------- signatures
signBlock(blockHash, key) == [signer |-> key, message |-> <<"block:", blockHash>>]

verifyBlockSignature(blockHash, signature, publicKey) ==
    /\ signature.signer = publicKey
    /\ signature.message = <<"block:", blockHash>>

BadSignature == [signer |-> "nobody", message |-> <<"block:", GENESIS_HASH>>]

Ceil2Thirds(n) == (2 * n + 2) \div 3

\* ---------------------------------------------------------------- variants
\* the execution loop without the credit to the receiver
CommitStepNoCredit(acc, tx) ==
    LET currentNonce == acc.nonces[tx.from]
        fromBalance == acc.balances[tx.from]
    IN  IF tx.nonce # currentNonce THEN acc
        ELSE IF fromBalance < tx.amount THEN acc
        ELSE [balances |-> [acc.balances EXCEPT ![tx.from] = fromBalance - tx.amount],
              nonces |-> [acc.nonces EXCEPT ![tx.from] = currentNonce + 1],
              executed |-> Append(acc.executed, tx)]

\* the execution loop without the running nonce check
CommitStepNoNonceCheck(acc, tx) ==
    LET currentNonce == acc.nonces[tx.from]
        fromBalance == acc.balances[tx.from]
    IN  IF fromBalance < tx.amount THEN acc
        ELSE LET debited == [acc.balances EXCEPT ![tx.from] = fromBalance - tx.amount]
             IN  [balances |-> [debited EXCEPT ![tx.to] = debited[tx.to] + tx.amount],
                  nonces |-> [acc.nonces EXCEPT ![tx.from] = currentNonce + 1],
                  executed |-> Append(acc.executed, tx)]

\* ------------------------------------------------------- transaction execution
\* One iteration of commitBlock's execution loop over the running state
\* acc = [balances, nonces, executed].
CommitStep(acc, tx) ==
    LET currentNonce == acc.nonces[tx.from]
        fromBalance == acc.balances[tx.from]
    IN  IF tx.nonce # currentNonce THEN acc
        ELSE IF fromBalance < tx.amount THEN acc
        ELSE LET debited == [acc.balances EXCEPT ![tx.from] = fromBalance - tx.amount]
             IN  [balances |-> [debited EXCEPT ![tx.to] = debited[tx.to] + tx.amount],
                  nonces |-> [acc.nonces EXCEPT ![tx.from] = currentNonce + 1],
                  executed |-> Append(acc.executed, tx)]

RECURSIVE CommitExec(_, _)
CommitExec(acc, txs) ==
    IF txs = <<>> THEN acc
    ELSE CommitExec(CommitStep(acc, Head(txs)), Tail(txs))

\* One iteration of computeStateRoot's simulation (packBlock): the balance is
\* checked, the nonce is not.
StateRootStep(acc, tx) ==
    LET fromBalance == acc.balances[tx.from]
    IN  IF fromBalance >= tx.amount
        THEN LET debited == [acc.balances EXCEPT ![tx.from] = fromBalance - tx.amount]
             IN  [balances |-> [debited EXCEPT ![tx.to] = debited[tx.to] + tx.amount],
                  nonces |-> [acc.nonces EXCEPT ![tx.from] = acc.nonces[tx.from] + 1]]
        ELSE acc

RECURSIVE StateRootSim(_, _)
StateRootSim(acc, txs) ==
    IF txs = <<>> THEN acc
    ELSE StateRootSim(StateRootStep(acc, Head(txs)), Tail(txs))

computeStateRoot(ws, txs) ==
    sha256Hex(StateRootSim([balances |-> ws.balances, nonces |-> ws.nonces], txs))

\* The validator's simulation (validateStateRoot): a transaction that fails
\* the nonce or the balance check makes the whole block invalid.
RECURSIVE ValidatorSim(_, _)
ValidatorSim(acc, txs) ==
    IF txs = <<>> \/ ~acc.ok THEN acc
    ELSE LET tx == Head(txs)
             currentNonce == acc.nonces[tx.from]
             fromBalance == acc.balances[tx.from]
         IN  IF tx.nonce # currentNonce \/ fromBalance < tx.amount
             THEN [acc EXCEPT !.ok = FALSE]
             ELSE LET debited == [acc.balances EXCEPT ![tx.from] = fromBalance - tx.amount]
                  IN  ValidatorSim(
                        [ok |-> TRUE,
                         balances |-> [debited EXCEPT ![tx.to] = debited[tx.to] + tx.amount],
                         nonces |-> [acc.nonces EXCEPT ![tx.from] = currentNonce + 1]],
                        Tail(txs))

validateStateRoot(block, ws) ==
    /\ block.header.height = ws.latestBlockHeight + 1
    /\ block.header.prevHash = ws.latestBlockHash
    /\ LET sim == ValidatorSim([ok |-> TRUE, balances |-> ws.balances, nonces |-> ws.nonces],
                               block.transactions)
       IN  /\ sim.ok
           /\ sha256Hex([balances |-> sim.balances, nonces |-> sim.nonces])
                = block.header.stateRoot

validateTransaction(tx) ==
    /\ hashTransaction(tx.from, tx.to, tx.amount, tx.nonce) = tx.hash
    /\ tx.amount >= 0

validateBlock(block, ws) ==
    /\ hashBlock(block.header) = block.hash
    /\ Len(block.transactions) = block.header.txCount
    /\ (Len(block.transactions) > 0 =>
          computeMerkleRoot(TxHashes(block.transactions)) = block.header.txRoot)
    /\ \A i \in 1..Len(block.transactions) : validateTransaction(block.transactions[i])
    /\ validateStateRoot(block, ws)

\* -------------------------------------------------------------------- state
VARIABLES
    worldState,       \* persisted record: worldState
    pendingQueue,     \* persisted record: pendingQueue
    blockHistory,     \* persisted record: blockHistory (height -> block)
    consensusConfig,  \* persisted record: consensusConfig
    executed,         \* history variable: height -> transactions commitBlock executed
    cache,            \* the object's in-memory copies that its guards read
    alarm,            \* the Durable Object alarm: "none" or "pending"
    backupDue,        \* now - this.lastBackupTime > backup interval
    backup,           \* the detached performBackup task
    rounds,           \* the proposer's trigger handlers in flight
    disturbances      \* how many timeouts, crashes and direct calls have happened

vars == <<worldState, pendingQueue, blockHistory, consensusConfig, executed, cache,
          alarm, backupDue, backup, rounds, disturbances>>

persisted == <<worldState, pendingQueue, blockHistory, consensusConfig, executed>>

NoBlock == [none |-> TRUE]
NoAge == -1
NoHeight == -1
\* no invocation of the trigger handler
NoRound == 0
EmptyHistory == [h \in {} |-> NoBlock]

createInitialWorldState ==
    [balances |-> Premine,
     nonces |-> [a \in Addresses |-> 0],
     latestBlockHeight |-> 0,
     latestBlockHash |-> GENESIS_HASH,
     totalTransactions |-> 0]

createInitialPendingQueue ==
    [transactions |-> <<>>, processing |-> FALSE, processingAge |-> NoAge,
     currentBlock |-> NoBlock, holder |-> NoRound]

DEFAULT_CONSENSUS_CONFIG == [validators |-> {}, requiredSignatures |-> 2]

\* the premine pseudo-transactions of block 0
generateGenesisTransactions ==
    <<MkTx("0x0", "A", Premine["A"], 0), MkTx("0x0", "B", Premine["B"], 0)>>

generateGenesisBlock ==
    LET txs == generateGenesisTransactions
        header == [height |-> 0,
                   prevHash |-> GENESIS_HASH,
                   txRoot |-> computeMerkleRoot(TxHashes(txs)),
                   stateRoot |-> sha256Hex([balances |-> Premine,
                                            validators |-> GenesisValidators]),
                   proposer |-> "genesis",
                   txCount |-> Len(txs)]
    IN  [header |-> header, transactions |-> txs, hash |-> hashBlock(header),
         votes |-> <<>>]

CacheOf(ws, q, cfg) ==
    [latestBlockHeight |-> ws.latestBlockHeight,
     processing |-> q.processing,
     validators |-> cfg.validators,
     requiredSignatures |-> cfg.requiredSignatures]

IdleRound == [pc |-> "idle", block |-> NoBlock]
\* recorded: the height of the first entry of the backup index, the backup
\* that finished last
IdleBackup == [pc |-> "idle", snap |-> <<>>, recorded |-> NoHeight]

Init ==
    /\ worldState = createInitialWorldState
    /\ pendingQueue = createInitialPendingQueue
    /\ blockHistory = EmptyHistory
    /\ consensusConfig = DEFAULT_CONSENSUS_CONFIG
    /\ executed = EmptyHistory
    /\ cache = CacheOf(createInitialWorldState, createInitialPendingQueue,
                       DEFAULT_CONSENSUS_CONFIG)
    /\ alarm = "none"
    /\ backupDue = TRUE
    /\ backup = IdleBackup
    /\ rounds = [r \in Triggers |-> IdleRound]
    /\ disturbances = 0

\* --------------------------------------------------- coordinator operations
\* Each operation is a predicate Ok (the call succeeds) and an action over the
\* coordinator's variables; callers add what happens to rounds.

initGenesisOk(force) == ~(cache.latestBlockHeight > 0 /\ ~force)

initGenesis(force) ==
    IF initGenesisOk(force)
    THEN LET genesisBlock == generateGenesisBlock
             ws == [balances |-> Premine,
                    nonces |-> [a \in Addresses |-> 0],
                    latestBlockHeight |-> 0,
                    latestBlockHash |-> genesisBlock.hash,
                    totalTransactions |-> Len(genesisBlock.transactions)]
             cfg == [validators |-> GenesisValidators,
                     requiredSignatures |-> Ceil2Thirds(Cardinality(GenesisValidators))]
         IN  /\ worldState' = ws
             /\ pendingQueue' = createInitialPendingQueue
             /\ blockHistory' = [h \in {0} |-> genesisBlock]
             /\ consensusConfig' = cfg
             /\ executed' = [h \in {0} |-> <<>>]
             /\ cache' = CacheOf(ws, createInitialPendingQueue, cfg)
             /\ UNCHANGED <<alarm, backupDue, backup>>
    ELSE UNCHANGED <<persisted, cache, alarm, backupDue, backup>>

InQueue(tx) == \E i \in 1..Len(pendingQueue.transactions) :
                  pendingQueue.transactions[i].hash = tx.hash

\* variant: addTransaction without its check of the queue for the hash
addTransactionErrorNoDuplicate(tx) ==
    IF tx.nonce # worldState.nonces[tx.from] THEN "Invalid nonce"
    ELSE IF worldState.balances[tx.from] < tx.amount THEN "Insufficient balance"
    ELSE "none"

addTransactionError(tx) ==
    IF InQueue(tx) THEN "Transaction already in queue"
    ELSE IF tx.nonce # worldState.nonces[tx.from] THEN "Invalid nonce"
    ELSE IF worldState.balances[tx.from] < tx.amount THEN "Insufficient balance"
    ELSE "none"

addTransactionOk(tx) == addTransactionError(tx) = "none"

addTransaction(tx) ==
    IF addTransactionOk(tx)
    THEN /\ pendingQueue' = [pendingQueue EXCEPT
                               !.transactions = Append(pendingQueue.transactions, tx)]
         /\ cache' = [cache EXCEPT !.processing = pendingQueue.processing]
         /\ UNCHANGED <<worldState, blockHistory, consensusConfig, executed,
                        alarm, backupDue, backup>>
    ELSE UNCHANGED <<persisted, cache, alarm, backupDue, backup>>

\* variant: the lock check left out of acquireProcessingLock
acquireProcessingLockErrorNoLock ==
    IF Len(pendingQueue.transactions) = 0 THEN "No pending transactions" ELSE "none"

\* variant: a held lock is never taken over, however old
acquireProcessingLockErrorNoTakeover ==
    IF pendingQueue.processing THEN "Processing in progress"
    ELSE IF Len(pendingQueue.transactions) = 0 THEN "No pending transactions"
    ELSE "none"

acquireProcessingLockError ==
    IF /\ pendingQueue.processing
       /\ pendingQueue.processingAge # NoAge
       /\ pendingQueue.processingAge < consensusTimeoutMs
    THEN "Processing in progress"
    ELSE IF Len(pendingQueue.transactions) = 0 THEN "No pending transactions"
    ELSE "none"

acquireProcessingLockOk == acquireProcessingLockError = "none"

\* holder is a history field: the invocation whose acquireProcessingLock set
\* the lock that is held
acquireProcessingLock(caller) ==
    IF acquireProcessingLockOk
    THEN /\ pendingQueue' = [pendingQueue EXCEPT !.processing = TRUE, !.processingAge = 0,
                                                 !.holder = caller]
         /\ cache' = [cache EXCEPT !.processing = TRUE]
         /\ UNCHANGED <<worldState, blockHistory, consensusConfig, executed,
                        alarm, backupDue, backup>>
    ELSE UNCHANGED <<persisted, cache, alarm, backupDue, backup>>

releaseProcessingLock(clearQueue) ==
    /\ pendingQueue' = [transactions |-> IF clearQueue THEN <<>>
                                         ELSE pendingQueue.transactions,
                        processing |-> FALSE,
                        processingAge |-> NoAge,
                        currentBlock |-> NoBlock,
                        holder |-> NoRound]
    /\ cache' = [cache EXCEPT !.processing = FALSE]
    /\ UNCHANGED <<worldState, blockHistory, consensusConfig, executed,
                   alarm, backupDue, backup>>

StoredRecord ==
    [worldState |-> worldState, pendingQueue |-> pendingQueue,
     blockHistory |-> blockHistory, consensusConfig |-> consensusConfig,
     executed |-> executed]

\* performBackup up to its upload: it reads the persisted record and keeps it.
\* At most one backup task is modelled in flight at a time.
StartBackup(record) ==
    [pc |-> "uploading", snap |-> record, recorded |-> backup.recorded]

packBlockOk == Len(pendingQueue.transactions) # 0

\* variant: packBlock without the slice to blockMaxTxs
PackedBlockWholeQueue(proposerId) ==
    LET txsToPack == pendingQueue.transactions
        header == [height |-> worldState.latestBlockHeight + 1,
                   prevHash |-> worldState.latestBlockHash,
                   txRoot |-> computeMerkleRoot(TxHashes(txsToPack)),
                   stateRoot |-> computeStateRoot(worldState, txsToPack),
                   proposer |-> proposerId,
                   txCount |-> Len(txsToPack)]
    IN  [header |-> header, transactions |-> txsToPack, hash |-> hashBlock(header),
         votes |-> <<>>]

PackedBlock(proposerId) ==
    LET txsToPack == SubSeq(pendingQueue.transactions, 1,
                            IF Len(pendingQueue.transactions) < blockMaxTxs
                            THEN Len(pendingQueue.transactions) ELSE blockMaxTxs)
        header == [height |-> worldState.latestBlockHeight + 1,
                   prevHash |-> worldState.latestBlockHash,
                   txRoot |-> computeMerkleRoot(TxHashes(txsToPack)),
                   stateRoot |-> computeStateRoot(worldState, txsToPack),
                   proposer |-> proposerId,
                   txCount |-> Len(txsToPack)]
    IN  [header |-> header, transactions |-> txsToPack, hash |-> hashBlock(header),
         votes |-> <<>>]

packBlock(proposerId) ==
    IF packBlockOk
    THEN /\ pendingQueue' = [pendingQueue EXCEPT !.processing = TRUE,
                                                 !.processingAge = 0,
                                                 !.currentBlock = PackedBlock(proposerId)]
         /\ cache' = [cache EXCEPT !.processing = TRUE]
         /\ alarm' = "pending"
         /\ UNCHANGED <<worldState, blockHistory, consensusConfig, executed,
                        backupDue, backup>>
    ELSE UNCHANGED <<persisted, cache, alarm, backupDue, backup>>

VoteIsValid(block, vote) ==
    /\ vote.validatorPubKey \in cache.validators
    /\ verifyBlockSignature(block.hash, vote.signature, vote.validatorPubKey)

validVotes(block, votes) == SelectSeq(votes, LAMBDA vote : VoteIsValid(block, vote))

\* variant: commitBlock without its prevHash check
commitBlockErrorNoParent(block, votes) ==
    IF block.header.height # worldState.latestBlockHeight + 1 THEN "Invalid block height"
    ELSE IF Len(validVotes(block, votes)) < cache.requiredSignatures
         THEN "Insufficient valid signatures"
    ELSE "none"

commitBlockError(block, votes) ==
    IF block.header.height # worldState.latestBlockHeight + 1 THEN "Invalid block height"
    ELSE IF block.header.prevHash # worldState.latestBlockHash
         THEN "Invalid previous block hash"
    ELSE IF Len(validVotes(block, votes)) < cache.requiredSignatures
         THEN "Insufficient valid signatures"
    ELSE "none"

commitBlockOk(block, votes) == commitBlockError(block, votes) = "none"

\* snapPre: the backup that commitBlock starts inside its storage transaction
\* reads the record outside that transaction, before or after it commits.
commitBlock(block, votes, snapPre) ==
    IF commitBlockOk(block, votes)
    THEN LET run == CommitExec([balances |-> worldState.balances,
                                nonces |-> worldState.nonces,
                                executed |-> <<>>], block.transactions)
             processedHashes == { run.executed[i].hash : i \in 1..Len(run.executed) }
             newWorldState ==
                 [balances |-> run.balances,
                  nonces |-> run.nonces,
                  latestBlockHeight |-> block.header.height,
                  latestBlockHash |-> block.hash,
                  totalTransactions |-> worldState.totalTransactions + Len(run.executed)]
             newBlockHistory ==
                 [h \in DOMAIN blockHistory \cup {block.header.height} |->
                    IF h = block.header.height THEN block ELSE blockHistory[h]]
             newQueue ==
                 [transactions |-> SelectSeq(pendingQueue.transactions,
                                             LAMBDA tx : tx.hash \notin processedHashes),
                  processing |-> FALSE,
                  processingAge |-> NoAge,
                  currentBlock |-> NoBlock,
                  holder |-> NoRound]
             newExecuted ==
                 [h \in DOMAIN executed \cup {block.header.height} |->
                    IF h = block.header.height THEN run.executed ELSE executed[h]]
             after == [worldState |-> newWorldState, pendingQueue |-> newQueue,
                       blockHistory |-> newBlockHistory,
                       consensusConfig |-> consensusConfig, executed |-> newExecuted]
         IN  /\ worldState' = newWorldState
             /\ pendingQueue' = newQueue
             /\ blockHistory' = newBlockHistory
             /\ executed' = newExecuted
             /\ cache' = [cache EXCEPT !.latestBlockHeight = block.header.height,
                                       !.processing = FALSE]
             /\ alarm' = "pending"
             /\ backup' = IF backupDue /\ backup.pc = "idle"
                          THEN StartBackup(IF snapPre THEN StoredRecord ELSE after)
                          ELSE backup
             /\ UNCHANGED <<consensusConfig, backupDue>>
    ELSE UNCHANGED <<persisted, cache, alarm, backupDue, backup>>

\* alarm(): an idle backup when one is due, then the release of a lock the
\* in-memory queue shows as held.
alarmHandler ==
    /\ alarm' = "none"
    /\ backup' = IF backupDue /\ backup.pc = "idle" THEN StartBackup(StoredRecord)
                 ELSE backup
    /\ IF cache.processing
       THEN /\ pendingQueue' = [pendingQueue EXCEPT !.processing = FALSE,
                                                    !.processingAge = NoAge,
                                                    !.currentBlock = NoBlock,
                                                    !.holder = NoRound]
            /\ cache' = [cache EXCEPT !.processing = FALSE]
       ELSE UNCHANGED <<pendingQueue, cache>>
    /\ UNCHANGED <<worldState, blockHistory, consensusConfig, executed, backupDue>>

\* performBackup after its upload: on success it stamps lastBackupTime and
\* writes the record it read at its start back to storage.
finishBackup(uploaded) ==
    /\ backup' = [IdleBackup EXCEPT !.recorded =
                    IF uploaded THEN backup.snap.worldState.latestBlockHeight
                    ELSE backup.recorded]
    /\ IF uploaded
       THEN /\ backupDue' = FALSE
            /\ worldState' = backup.snap.worldState
            /\ pendingQueue' = backup.snap.pendingQueue
            /\ blockHistory' = backup.snap.blockHistory
            /\ consensusConfig' = backup.snap.consensusConfig
            /\ executed' = backup.snap.executed
       ELSE UNCHANGED <<persisted, backupDue>>
    /\ UNCHANGED <<cache, alarm>>

\* /internal/restore.  The request carries a state, a cid and force; the cid
\* is compared with the first entry of the backup index, the state is stored
\* as it came.  The in-memory configuration is not reloaded, and the restored
\* state carries no lastBackupTime, so that a backup is due again.
NoCid == "none"
LatestCid == "latest"
OtherCid == "other"
Cids == {NoCid, LatestCid, OtherCid}

restoreError(cid, force) ==
    IF cid = NoCid THEN "CID is required for verification"
    ELSE IF backup.recorded = NoHeight THEN "No backup records found in index"
    ELSE IF cid # LatestCid THEN "CID mismatch"
    ELSE IF cache.latestBlockHeight > 0 /\ ~force
         THEN "Cannot restore to a live chain without force=true"
    ELSE "none"

restoreOk(cid, force) == restoreError(cid, force) = "none"

restore(state, cid, force) ==
    IF restoreOk(cid, force)
    THEN /\ worldState' = state.worldState
         /\ pendingQueue' = state.pendingQueue
         /\ blockHistory' = state.blockHistory
         /\ consensusConfig' = state.consensusConfig
         /\ executed' = state.executed
         /\ cache' = [cache EXCEPT
                        !.latestBlockHeight = state.worldState.latestBlockHeight,
                        !.processing = state.pendingQueue.processing]
         /\ backupDue' = TRUE
         /\ UNCHANGED <<alarm, backup>>
    ELSE UNCHANGED <<persisted, cache, alarm, backupDue, backup>>

\* ------------------------------------------------------------------- reads
\* Every query handler reads the stored record with one storage.get and
\* answers from that copy.
queryState ==
    [worldState |-> worldState,
     pendingCount |-> Len(pendingQueue.transactions),
     processing |-> pendingQueue.processing]

queryAccount(address) ==
    [balance |-> worldState.balances[address], nonce |-> worldState.nonces[address]]

queryLatestBlock ==
    [height |-> worldState.latestBlockHeight, hash |-> worldState.latestBlockHash]

queryBlock(height) ==
    IF height \in DOMAIN blockHistory
    THEN [block |-> blockHistory[height],
          confirmations |-> worldState.latestBlockHeight - height + 1]
    ELSE [block |-> NoBlock, confirmations |-> 0]

getPendingQueue == pendingQueue

\* the heights whose stored block lists the hash
HeightsOf(txHash) ==
    { h \in DOMAIN blockHistory :
        \E i \in 1..Len(blockHistory[h].transactions) :
            blockHistory[h].transactions[i].hash = txHash }

queryTransaction(txHash) ==
    IF HeightsOf(txHash) # {}
    THEN [status |-> "confirmed",
          blockHeight |-> CHOOSE h \in HeightsOf(txHash) :
                             \A k \in HeightsOf(txHash) : h <= k]
    ELSE IF \E i \in 1..Len(pendingQueue.transactions) :
               pendingQueue.transactions[i].hash = txHash
         THEN [status |-> IF pendingQueue.processing THEN "processing" ELSE "pending",
               blockHeight |-> NoHeight]
    ELSE [status |-> "not found", blockHeight |-> NoHeight]

\* ------------------------------------------------------------------ actions
coordinator == <<persisted, cache, alarm, backupDue, backup>>

\* POST /tx/submit, or /internal/add-tx directly
SubmitTransaction(tx) ==
    /\ Len(pendingQueue.transactions) < MaxQueue
    /\ addTransactionOk(tx)
    /\ addTransaction(tx)
    /\ UNCHANGED rounds

\* POST /admin/init-genesis, or /internal/init-genesis with a body
CallInitGenesis(force) ==
    /\ initGenesisOk(force)
    /\ initGenesis(force)
    /\ UNCHANGED rounds

\* The gateway's answer to POST /admin/init-genesis: it calls the coordinator
\* without a body, so without force, and wraps whatever the coordinator
\* answered into a response of its own with the default status.
HttpOk == 200
HttpConflict == 409

handleInitGenesis ==
    [status |-> HttpOk,
     body |-> [success |-> TRUE,
               data |-> IF initGenesisOk(FALSE)
                        THEN [success |-> TRUE, error |-> "none"]
                        ELSE [success |-> FALSE,
                              error |-> "Blockchain already initialized"]]]

\* handleTrigger, step 1: acquire the processing lock; 409 when that fails.
\* A new invocation is given the lowest free number.
TriggerAcquire(r) ==
    /\ rounds[r].pc = "idle"
    /\ \A q \in Triggers : q < r => rounds[q].pc # "idle"
    /\ acquireProcessingLockOk
    /\ acquireProcessingLock(r)
    /\ rounds' = [rounds EXCEPT ![r].pc = "locked"]

\* handleTrigger, step 2: pack the block and sign it
TriggerPack(r) ==
    /\ rounds[r].pc = "locked"
    /\ worldState.latestBlockHeight < MaxHeight
    /\ packBlock(PROPOSER_ID)
    /\ rounds' = [rounds EXCEPT ![r] =
                    IF packBlockOk
                    THEN [pc |-> "packed", block |-> PackedBlock(PROPOSER_ID)]
                    ELSE [IdleRound EXCEPT !.pc = "release"]]

\* the votes array of collectValidatorVotes for the validators that approved
VotesFor(block, voters) ==
    LET all == [i \in 1..Len(ValidatorOrder) |->
                  [validatorPubKey |-> ValidatorOrder[i],
                   signature |-> signBlock(block.hash, ValidatorOrder[i])]]
    IN  SelectSeq(all, LAMBDA vote : vote.validatorPubKey \in voters)

\* handleTrigger, step 3: collectValidatorVotes asks every validator at once.
\* A validator reads the coordinator's world state, checks the block and signs
\* its hash; one that is unreachable or answers with an error gives no vote.
\* With fewer than ProposerMinVotes votes the handler goes on to release the
\* lock, else it attaches the votes to the block and goes on to commit.
TriggerCollect(r, responders) ==
    /\ rounds[r].pc = "packed"
    /\ LET block == rounds[r].block
           voters == IF validateBlock(block, worldState) THEN responders ELSE {}
           votes == VotesFor(block, voters)
       IN  rounds' = [rounds EXCEPT ![r] =
                        IF Len(votes) < ProposerMinVotes
                        THEN [IdleRound EXCEPT !.pc = "release"]
                        ELSE [pc |-> "commit",
                              block |-> [block EXCEPT !.votes = votes]]]
    /\ UNCHANGED coordinator

\* handleTrigger, step 4: commit; a failed commit is followed by a release
TriggerCommit(r, snapPre) ==
    /\ rounds[r].pc = "commit"
    /\ LET block == rounds[r].block
       IN  /\ commitBlock(block, block.votes, snapPre)
           /\ rounds' = [rounds EXCEPT ![r] =
                           IF commitBlockOk(block, block.votes) THEN IdleRound
                           ELSE [IdleRound EXCEPT !.pc = "release"]]

\* variant: the failure path releases with clearQueue = true
TriggerReleaseClearing(r) ==
    /\ rounds[r].pc = "release"
    /\ releaseProcessingLock(TRUE)
    /\ rounds' = [rounds EXCEPT ![r] = IdleRound]

\* handleTrigger: releaseLock(doStub, false) on a failure path
TriggerRelease(r) ==
    /\ rounds[r].pc = "release"
    /\ releaseProcessingLock(FALSE)
    /\ rounds' = [rounds EXCEPT ![r] = IdleRound]

\* handleTrigger: an awaited call after the lock was acquired throws, and
\* control passes to the catch block
TriggerThrow(r) ==
    /\ rounds[r].pc \in {"locked", "packed", "commit", "release"}
    /\ rounds' = [rounds EXCEPT ![r] = [IdleRound EXCEPT !.pc = "catch"]]
    /\ UNCHANGED coordinator

\* handleTrigger, catch block: reportErrorToDO and then releaseLock, inside
\* one try whose own catch ignores the error; when the report throws, the
\* release is not reached
TriggerCatch(r, reported) ==
    /\ rounds[r].pc = "catch"
    /\ IF reported THEN releaseProcessingLock(FALSE) ELSE UNCHANGED coordinator
    /\ rounds' = [rounds EXCEPT ![r] = IdleRound]

\* the handler's invocation dies after it acquired the lock
ProposerCrash(r) ==
    /\ rounds[r].pc # "idle"
    /\ rounds' = [rounds EXCEPT ![r] = IdleRound]
    /\ UNCHANGED coordinator

\* POST /tx/submit of a client that sends a transfer of a positive amount and
\* waits for its confirmation before it sends the next: the gateway adds the
\* transaction to the queue and, when that succeeded, sends one trigger to the
\* proposer.  The bound keeps a block height free for every queued transaction.
ApiTxs == { tx \in Transactions : tx.from # tx.to /\ tx.amount > 0 }

handleSubmitTransaction(tx, r) ==
    /\ Len(pendingQueue.transactions) < MaxQueue
    /\ worldState.latestBlockHeight + Len(pendingQueue.transactions) < MaxHeight
    /\ \A i \in 1..Len(pendingQueue.transactions) :
          pendingQueue.transactions[i].from # tx.from
    /\ rounds[r].pc = "idle"
    /\ \A q \in Triggers : q < r => rounds[q].pc # "idle"
    /\ addTransactionOk(tx)
    /\ addTransaction(tx)
    /\ rounds' = [rounds EXCEPT ![r].pc = "triggered"]

\* /internal/add-tx for a client that sends a transfer of a positive amount
\* and has no other transaction of its own waiting
SubmitInTurn(tx) ==
    /\ worldState.latestBlockHeight + Len(pendingQueue.transactions) < MaxHeight
    /\ \A i \in 1..Len(pendingQueue.transactions) :
          pendingQueue.transactions[i].from # tx.from
    /\ SubmitTransaction(tx)

\* variant: a trigger that did not get the lock goes on to release it
TriggerArrivesReleasing(r) ==
    /\ rounds[r].pc = "triggered"
    /\ acquireProcessingLock(r)
    /\ rounds' = [rounds EXCEPT ![r].pc =
                    IF acquireProcessingLockOk THEN "locked" ELSE "release"]

\* handleTrigger, step 1, of a trigger the gateway sent: with the lock it goes
\* on to pack, without it the handler answers 409 and ends
TriggerArrives(r) ==
    /\ rounds[r].pc = "triggered"
    /\ acquireProcessingLock(r)
    /\ rounds' = [rounds EXCEPT ![r].pc =
                    IF acquireProcessingLockOk THEN "locked" ELSE "idle"]

\* ---------------------------------------------- direct calls of the endpoints
\* /internal/commit-block takes any block and any votes.  A caller knows the
\* committed blocks, which carry their votes, can sign with a key of its own,
\* and can put any transactions into a block.
KnownBlocks == { blockHistory[h] : h \in DOMAIN blockHistory \ {0} }

CallerBlocks ==
    IF worldState.latestBlockHeight >= MaxHeight THEN {} ELSE
    { [header |-> [b.header EXCEPT !.height = worldState.latestBlockHeight + 1,
                                   !.prevHash = prevHash],
       transactions |-> <<tx>>,
       hash |-> b.hash,
       votes |-> b.votes] :
        b \in KnownBlocks, tx \in AllTxs,
        prevHash \in {worldState.latestBlockHash, GENESIS_HASH} }

CallerVotes(block) ==
    { block.votes[i] : i \in 1..Len(block.votes) }
      \cup { [validatorPubKey |-> OutsiderKey,
              signature |-> signBlock(block.hash, OutsiderKey)],
             [validatorPubKey |-> "node-1", signature |-> BadSignature] }

VoteLists(block) ==
    UNION { [1..n -> CallerVotes(block)] : n \in 1..MaxVotes }

CallCommitBlock(block, votes, snapPre) ==
    /\ commitBlockOk(block, votes)
    /\ commitBlock(block, votes, snapPre)
    /\ UNCHANGED rounds

\* /internal/release-lock
CallReleaseLock(clearQueue) ==
    /\ releaseProcessingLock(clearQueue)
    /\ UNCHANGED rounds

\* ------------------------------------------------------------ time and alarm
AgeOf(q) ==
    IF q.processingAge = NoAge THEN q
    ELSE [q EXCEPT !.processingAge = consensusTimeoutMs]

\* consensusTimeoutMs pass, and with them the backup interval may run out
Tick(hourPassed) ==
    /\ pendingQueue' = AgeOf(pendingQueue)
    /\ backup' = IF backup.pc = "idle" THEN backup
                 ELSE [backup EXCEPT !.snap.pendingQueue = AgeOf(@)]
    /\ backupDue' = (backupDue \/ hourPassed)
    /\ UNCHANGED <<worldState, blockHistory, consensusConfig, executed, cache,
                   alarm, rounds>>

\* the time the alarm was set for is reached and the runtime calls alarm()
AlarmFires ==
    /\ alarm = "pending"
    /\ alarmHandler
    /\ UNCHANGED rounds

\* /internal/trigger-backup
CallTriggerBackup ==
    /\ backup.pc = "idle"
    /\ backup' = StartBackup(StoredRecord)
    /\ UNCHANGED <<persisted, cache, alarm, backupDue, rounds>>

BackupFinish(uploaded) ==
    /\ backup.pc = "uploading"
    /\ finishBackup(uploaded)
    /\ UNCHANGED rounds

\* the states a caller of /internal/restore sends: the record of a fresh
\* coordinator and the record a genesis initialisation stores
FreshRecord ==
    [worldState |-> createInitialWorldState,
     pendingQueue |-> createInitialPendingQueue,
     blockHistory |-> EmptyHistory,
     consensusConfig |-> DEFAULT_CONSENSUS_CONFIG,
     executed |-> EmptyHistory]

GenesisRecord ==
    [worldState |-> [balances |-> Premine,
                     nonces |-> [a \in Addresses |-> 0],
                     latestBlockHeight |-> 0,
                     latestBlockHash |-> generateGenesisBlock.hash,
                     totalTransactions |-> Len(generateGenesisBlock.transactions)],
     pendingQueue |-> createInitialPendingQueue,
     blockHistory |-> [h \in {0} |-> generateGenesisBlock],
     consensusConfig |-> [validators |-> GenesisValidators,
                          requiredSignatures |->
                              Ceil2Thirds(Cardinality(GenesisValidators))],
     executed |-> [h \in {0} |-> <<>>]]

RestoreStates == {FreshRecord, GenesisRecord}

CallRestore(state, cid, force) ==
    /\ restoreOk(cid, force)
    /\ restore(state, cid, force)
    /\ UNCHANGED rounds

\* whether the backup a commit starts reads the record before or after the
\* commit's transaction; without such a backup there is nothing to choose
SnapChoices == IF backupDue /\ backup.pc = "idle" THEN BOOLEAN ELSE {FALSE}

\* ---------------------------------------------------------------------- spec
\* what interrupts the orderly sequence of rounds: consensusTimeoutMs running
\* out, a firing of the alarm, a crash of a handler, a call of an internal
\* endpoint by someone other than the proposer, a genesis initialisation that
\* discards state; a behaviour has at most MaxDisturbances of them
Disturbance ==
    /\ disturbances < MaxDisturbances
    /\ disturbances' = disturbances + 1

Disturbing(action) == Disturbance /\ action
Orderly(action) == action /\ UNCHANGED disturbances

\* nothing has been stored yet that a genesis initialisation would discard
Pristine == DOMAIN blockHistory = {} /\ pendingQueue = createInitialPendingQueue

Next ==
    \/ Orderly(\E tx \in AllTxs : SubmitTransaction(tx))
    \/ Orderly(Pristine /\ CallInitGenesis(FALSE))
    \/ Disturbing(\E force \in BOOLEAN : ~Pristine /\ CallInitGenesis(force))
    \/ Orderly(\E r \in Triggers : TriggerAcquire(r))
    \/ Orderly(\E r \in Triggers : TriggerPack(r))
    \/ Orderly(\E r \in Triggers, responders \in SUBSET GenesisValidators :
                  TriggerCollect(r, responders))
    \/ Orderly(\E r \in Triggers, snapPre \in SnapChoices : TriggerCommit(r, snapPre))
    \/ Orderly(\E r \in Triggers : TriggerRelease(r))
    \/ Disturbing(\E r \in Triggers : ProposerCrash(r))
    \/ Disturbing(\E r \in Triggers : TriggerThrow(r))
    \/ Orderly(\E r \in Triggers, reported \in BOOLEAN : TriggerCatch(r, reported))
    \/ Disturbing(\E block \in CallerBlocks, snapPre \in SnapChoices :
                     \E votes \in VoteLists(block) :
                        CallCommitBlock(block, votes, snapPre))
    \/ Disturbing(\E clearQueue \in BOOLEAN : CallReleaseLock(clearQueue))
    \/ Disturbing(\E hourPassed \in BOOLEAN : Tick(hourPassed))
    \/ Disturbing(AlarmFires)
    \/ Disturbing(CallTriggerBackup)
    \/ Orderly(\E uploaded \in BOOLEAN : BackupFinish(uploaded))

Spec == Init /\ [][Next]_vars

\* Repeated triggers with every validator honest and responsive, no timeout,
\* no crash and no direct call: each step of a round is taken once it can be,
\* and a new trigger arrives whenever the lock can be acquired.
RetryTxs == { tx \in AllTxs : tx.amount > 0 }

NextRetry ==
    \/ Orderly(\E tx \in RetryTxs : SubmitTransaction(tx))
    \/ Orderly(Pristine /\ CallInitGenesis(FALSE))
    \/ Orderly(\E r \in Triggers : TriggerAcquire(r))
    \/ Orderly(\E r \in Triggers : TriggerPack(r))
    \/ Orderly(\E r \in Triggers : TriggerCollect(r, GenesisValidators))
    \/ Orderly(\E r \in Triggers, snapPre \in SnapChoices : TriggerCommit(r, snapPre))
    \/ Orderly(\E r \in Triggers : TriggerRelease(r))
    \/ Orderly(BackupFinish(FALSE))

SpecRetry ==
    /\ Init
    /\ [][NextRetry]_vars
    /\ WF_vars(Orderly(\E r \in Triggers : TriggerAcquire(r)))
    /\ WF_vars(Orderly(\E r \in Triggers : TriggerPack(r)))
    /\ WF_vars(Orderly(\E r \in Triggers : TriggerCollect(r, GenesisValidators)))
    /\ WF_vars(Orderly(\E r \in Triggers, snapPre \in SnapChoices : TriggerCommit(r, snapPre)))
    /\ WF_vars(Orderly(\E r \in Triggers : TriggerRelease(r)))
    /\ WF_vars(Orderly(BackupFinish(FALSE)))

\* The system left to itself: transactions come in through the gateway, the
\* only triggers are the ones the gateway sends, every validator is honest and
\* responsive, the alarm fires when it is set, and no backup store is
\* configured.  Every step of a handler and the alarm are taken once they can
\* be; submissions are not required to happen.
NextApi ==
    \/ Orderly(\E tx \in ApiTxs, r \in Triggers : handleSubmitTransaction(tx, r))
    \/ Orderly(Pristine /\ CallInitGenesis(FALSE))
    \/ Orderly(\E r \in Triggers : TriggerArrives(r))
    \/ Orderly(\E r \in Triggers : TriggerPack(r))
    \/ Orderly(\E r \in Triggers : TriggerCollect(r, GenesisValidators))
    \/ Orderly(\E r \in Triggers, snapPre \in SnapChoices : TriggerCommit(r, snapPre))
    \/ Orderly(\E r \in Triggers : TriggerRelease(r))
    \/ Orderly(AlarmFires)
    \/ Orderly(BackupFinish(FALSE))

SpecApi ==
    /\ Init
    /\ [][NextApi]_vars
    /\ WF_vars(Orderly(\E r \in Triggers : TriggerArrives(r)))
    /\ WF_vars(Orderly(\E r \in Triggers : TriggerPack(r)))
    /\ WF_vars(Orderly(\E r \in Triggers : TriggerCollect(r, GenesisValidators)))
    /\ WF_vars(Orderly(\E r \in Triggers, snapPre \in SnapChoices : TriggerCommit(r, snapPre)))
    /\ WF_vars(Orderly(\E r \in Triggers : TriggerRelease(r)))
    /\ WF_vars(Orderly(AlarmFires))
    /\ WF_vars(Orderly(BackupFinish(FALSE)))

\* Rounds that can fail and be retried: a handler may crash, validators may
\* be unreachable, time passes and the alarm may fire.
NextRecover ==
    \/ Orderly(\E tx \in RetryTxs : SubmitInTurn(tx))
    \/ Orderly(Pristine /\ CallInitGenesis(FALSE))
    \/ Orderly(\E r \in Triggers : TriggerAcquire(r))
    \/ Orderly(\E r \in Triggers : TriggerPack(r))
    \/ Orderly(\E r \in Triggers, responders \in SUBSET GenesisValidators :
                  TriggerCollect(r, responders))
    \/ Orderly(\E r \in Triggers, snapPre \in SnapChoices : TriggerCommit(r, snapPre))
    \/ Orderly(\E r \in Triggers : TriggerRelease(r))
    \/ Disturbing(\E r \in Triggers : ProposerCrash(r))
    \/ Orderly(Tick(FALSE))
    \/ Orderly(AlarmFires)
    \/ Orderly(BackupFinish(FALSE))

\* a handler that has not crashed takes its next step
HandlersProceed ==
    /\ WF_vars(Orderly(\E r \in Triggers : TriggerPack(r)))
    /\ WF_vars(Orderly(\E r \in Triggers, snapPre \in SnapChoices : TriggerCommit(r, snapPre)))
    /\ WF_vars(Orderly(\E r \in Triggers : TriggerRelease(r)))
    /\ WF_vars(Orderly(BackupFinish(FALSE)))
    /\ WF_vars(Orderly(Tick(FALSE)))

\* Triggers keep arriving, and again and again all validators answer; the
\* alarm is not required to fire.
SpecRecover ==
    /\ Init
    /\ [][NextRecover]_vars
    /\ HandlersProceed
    /\ WF_vars(Orderly(\E r \in Triggers : TriggerAcquire(r)))
    /\ SF_vars(Orderly(\E r \in Triggers : TriggerCollect(r, GenesisValidators)))

\* No trigger is required to arrive; the alarm fires when it is set.
SpecWatchdog ==
    /\ Init
    /\ [][NextRecover]_vars
    /\ HandlersProceed
    /\ WF_vars(Orderly(\E r \in Triggers : TriggerCollect(r, GenesisValidators)))
    /\ WF_vars(Orderly(AlarmFires))

\* Validators that may never answer: collectValidatorVotes awaits the answers
\* of all of them and sets no timer of its own, so that the step that ends
\* the collection is not required to happen.  The handler's other steps and
\* the alarm are.
SpecSilent ==
    /\ Init
    /\ [][NextRecover]_vars
    /\ HandlersProceed
    /\ WF_vars(Orderly(AlarmFires))

\* Backups and restores between orderly rounds: every validator answers, no
\* handler crashes; backups are started on request or by a commit, their
\* upload succeeds or fails, and anyone may call /internal/restore.  The
\* direct calls count as disturbances.
NextRestore ==
    \/ Orderly(\E tx \in RetryTxs : SubmitInTurn(tx))
    \/ Orderly(Pristine /\ CallInitGenesis(FALSE))
    \/ Orderly(\E r \in Triggers : TriggerAcquire(r))
    \/ Orderly(\E r \in Triggers : TriggerPack(r))
    \/ Orderly(\E r \in Triggers : TriggerCollect(r, GenesisValidators))
    \/ Orderly(\E r \in Triggers, snapPre \in SnapChoices : TriggerCommit(r, snapPre))
    \/ Orderly(\E r \in Triggers : TriggerRelease(r))
    \/ Disturbing(CallTriggerBackup)
    \/ Orderly(\E uploaded \in BOOLEAN : BackupFinish(uploaded))
    \/ Disturbing(\E state \in RestoreStates, cid \in Cids, force \in BOOLEAN :
                     CallRestore(state, cid, force))

SpecRestore == Init /\ [][NextRestore]_vars

\* A deployment whose genesis configuration premines one unit to each of
\* blockMaxTxs + 1 accounts, after its initialisation and a backup.  Every
\* account sends one transfer; the accounts submit in their order, each at
\* any time after the one before it, while honest rounds run.
BatchOrder ==
    <<"S01", "S02", "S03", "S04", "S05", "S06", "S07", "S08", "S09", "S10", "S11",
      "S12", "S13", "S14", "S15", "S16", "S17", "S18", "S19", "S20", "S21">>

BatchSize == blockMaxTxs + 1
BatchAccounts == { BatchOrder[i] : i \in 1..BatchSize }
BatchPremine == [a \in BatchAccounts |-> 1]

BatchTx(i) == MkTx(BatchOrder[i], BatchOrder[IF i = 1 THEN 2 ELSE 1], 1, 0)

BatchGenesisBlock ==
    LET txs == [i \in 1..BatchSize |-> MkTx("0x0", BatchOrder[i], 1, 0)]
        header == [height |-> 0,
                   prevHash |-> GENESIS_HASH,
                   txRoot |-> computeMerkleRoot(TxHashes(txs)),
                   stateRoot |-> sha256Hex([balances |-> BatchPremine,
                                            validators |-> GenesisValidators]),
                   proposer |-> "genesis",
                   txCount |-> Len(txs)]
    IN  [header |-> header, transactions |-> txs, hash |-> hashBlock(header),
         votes |-> <<>>]

BatchRecord ==
    [worldState |-> [balances |-> BatchPremine,
                     nonces |-> [a \in BatchAccounts |-> 0],
                     latestBlockHeight |-> 0,
                     latestBlockHash |-> BatchGenesisBlock.hash,
                     totalTransactions |-> Len(BatchGenesisBlock.transactions)],
     pendingQueue |-> createInitialPendingQueue,
     blockHistory |-> [h \in {0} |-> BatchGenesisBlock],
     consensusConfig |-> [validators |-> GenesisValidators,
                          requiredSignatures |->
                              Ceil2Thirds(Cardinality(GenesisValidators))],
     executed |-> [h \in {0} |-> <<>>]]

InitBatch ==
    /\ worldState = BatchRecord.worldState
    /\ pendingQueue = BatchRecord.pendingQueue
    /\ blockHistory = BatchRecord.blockHistory
    /\ consensusConfig = BatchRecord.consensusConfig
    /\ executed = BatchRecord.executed
    /\ cache = CacheOf(BatchRecord.worldState, BatchRecord.pendingQueue,
                       BatchRecord.consensusConfig)
    /\ alarm = "none"
    /\ backupDue = FALSE
    /\ backup = IdleBackup
    /\ rounds = [r \in Triggers |-> IdleRound]
    /\ disturbances = 0

BatchSubmit(i) ==
    /\ \A j \in 1..(i - 1) : InQueue(BatchTx(j)) \/ worldState.nonces[BatchOrder[j]] > 0
    /\ addTransactionOk(BatchTx(i))
    /\ addTransaction(BatchTx(i))
    /\ UNCHANGED rounds

NextBatch ==
    \/ Orderly(\E i \in 1..BatchSize : BatchSubmit(i))
    \/ Orderly(\E r \in Triggers : TriggerAcquire(r))
    \/ Orderly(\E r \in Triggers : TriggerPack(r))
    \/ Orderly(\E r \in Triggers : TriggerCollect(r, GenesisValidators))
    \/ Orderly(\E r \in Triggers : TriggerCommit(r, FALSE))

SpecBatch == InitBatch /\ [][NextBatch]_vars

\* =================================================================== claims
\* what the claims speak of, read off the persisted record
Initialised == DOMAIN blockHistory # {}

RECURSIVE ExecutedUpTo(_)
ExecutedUpTo(h) ==
    IF h \notin DOMAIN executed THEN <<>>
    ELSE IF h = 0 THEN executed[0]
    ELSE ExecutedUpTo(h - 1) \o executed[h]

\* the executed transactions of the committed blocks, in chain order
ChainExecuted == ExecutedUpTo(worldState.latestBlockHeight)

RECURSIVE SumAmounts(_)
SumAmounts(txs) == IF txs = <<>> THEN 0 ELSE Head(txs).amount + SumAmounts(Tail(txs))

Debited(a) == SumAmounts(SelectSeq(ChainExecuted, LAMBDA tx : tx.from = a))
Credited(a) == SumAmounts(SelectSeq(ChainExecuted, LAMBDA tx : tx.to = a))

\* C1: no double-spend.  In every reachable state no account balance is
\* negative, and what the executed transactions of an address have debited
\* never exceeds its genesis balance plus what executed transactions have
\* credited to it.
C1_NoDoubleSpend ==
    \A a \in Addresses :
        /\ worldState.balances[a] >= 0
        /\ Debited(a) <= Premine[a] + Credited(a)

\* the members of the configured validator set with a valid signature over
\* the block hash among the votes
DistinctValidSigners(block, votes) ==
    { votes[i].validatorPubKey : i \in { j \in 1..Len(votes) : VoteIsValid(block, votes[j]) } }

HasQuorum(block, votes) ==
    Cardinality(DistinctValidSigners(block, votes))
        >= Ceil2Thirds(Cardinality(cache.validators))

\* C2: quorum required.  Every step in which commitBlock succeeds, called by
\* a round or directly, is one whose votes hold valid signatures over the
\* block hash of at least ceil(2N/3) pairwise distinct members of the
\* validator set; non-members, invalid signatures and repeats do not count.
C2_QuorumRequired ==
    [][ /\ \A r \in Triggers, snapPre \in BOOLEAN :
              ( /\ rounds[r].pc = "commit"
                /\ commitBlockOk(rounds[r].block, rounds[r].block.votes)
                /\ TriggerCommit(r, snapPre) )
                  => HasQuorum(rounds[r].block, rounds[r].block.votes)
        /\ \A block \in CallerBlocks, snapPre \in BOOLEAN :
              \A votes \in VoteLists(block) :
                  CallCommitBlock(block, votes, snapPre) => HasQuorum(block, votes)
      ]_vars

\* a step keeps what is committed: every block of the history stays what it
\* is, the height does not fall, and no executed transaction is undone
FinalityKept ==
    /\ \A h \in DOMAIN blockHistory :
          /\ h \in DOMAIN blockHistory'
          /\ blockHistory'[h] = blockHistory[h]
          /\ h \in DOMAIN executed'
          /\ executed'[h] = executed[h]
    /\ worldState'.latestBlockHeight >= worldState.latestBlockHeight
    /\ \A a \in Addresses : worldState'.nonces[a] >= worldState.nonces[a]

\* C3: finality.  Once a block is committed at height h, no later step other
\* than a forced initGenesis changes or removes blockHistory[h], lowers the
\* height or undoes the effects of its executed transactions.
C3_Finality == [][CallInitGenesis(TRUE) \/ FinalityKept]_vars

ChainLinked ==
    /\ DOMAIN blockHistory = 0..worldState.latestBlockHeight
    /\ \A h \in DOMAIN blockHistory : blockHistory[h].header.height = h
    /\ \A h \in DOMAIN blockHistory \ {0} :
          blockHistory[h].header.prevHash = blockHistory[h - 1].hash
    /\ worldState.latestBlockHash = blockHistory[worldState.latestBlockHeight].hash

\* C4: hash chain.  Once the genesis block is stored, in every reachable state
\* the history is dense from 0 to latestHeight, every block sits at its own
\* height, every block above 0 names the hash of its predecessor, and
\* latestHash is the hash of the block at latestHeight.
C4_HashChain == Initialised => ChainLinked

\* the four effects of a successful commitBlock(block, ...) on the stored
\* record, measured against the transactions the step executed
AtomicEffects(block) ==
    LET h == block.header.height
        ex == executed'[h]
        exHashes == { ex[i].hash : i \in 1..Len(ex) }
        sent(a) == SelectSeq(ex, LAMBDA tx : tx.from = a)
        received(a) == SelectSeq(ex, LAMBDA tx : tx.to = a)
    IN  /\ pendingQueue'.transactions =
              SelectSeq(pendingQueue.transactions, LAMBDA tx : tx.hash \notin exHashes)
        /\ \A a \in Addresses :
              /\ worldState'.balances[a] =
                    worldState.balances[a] - SumAmounts(sent(a)) + SumAmounts(received(a))
              /\ worldState'.nonces[a] = worldState.nonces[a] + Len(sent(a))
        /\ worldState'.totalTransactions = worldState.totalTransactions + Len(ex)
        /\ worldState'.latestBlockHeight = h
        /\ worldState'.latestBlockHash = block.hash
        /\ h \notin DOMAIN blockHistory
        /\ DOMAIN blockHistory' = DOMAIN blockHistory \cup {h}
        /\ blockHistory'[h] = block
        /\ \A k \in DOMAIN blockHistory : blockHistory'[k] = blockHistory[k]
        /\ ~pendingQueue'.processing
        /\ pendingQueue'.processingAge = NoAge
        /\ pendingQueue'.currentBlock = NoBlock

\* C5: atomic commit.  Every step in which commitBlock succeeds (a) removes
\* from the queue exactly the transactions it executed, (b) changes balances
\* and sequences by exactly the effects of those transactions, (c) adds
\* exactly one entry to the block history and (d) clears processing,
\* processingStartedAt and currentBlock, all within that one step.
C5_AtomicCommit ==
    [][ /\ \A r \in Triggers, snapPre \in BOOLEAN :
              ( /\ rounds[r].pc = "commit"
                /\ commitBlockOk(rounds[r].block, rounds[r].block.votes)
                /\ TriggerCommit(r, snapPre) )
                  => AtomicEffects(rounds[r].block)
        /\ ( /\ rounds' = rounds
             /\ worldState'.latestBlockHeight # worldState.latestBlockHeight )
              => \A block \in CallerBlocks, snapPre \in BOOLEAN :
                    \A votes \in VoteLists(block) :
                        CallCommitBlock(block, votes, snapPre) => AtomicEffects(block)
      ]_vars

\* a block has been committed whose transaction was executed and left the
\* queue, while a transaction admitted during the round stays queued
C5_Witness ==
    /\ worldState.latestBlockHeight >= 1
    /\ Initialised
    /\ DOMAIN blockHistory = DOMAIN executed
    /\ Len(executed[worldState.latestBlockHeight]) = 1
    /\ Len(pendingQueue.transactions) = 1
    /\ ~pendingQueue.processing
    /\ \A r \in Triggers : rounds[r].pc = "idle"

\* the transactions an address sent that committed blocks executed, in chain
\* order
SentBy(a) == SelectSeq(ChainExecuted, LAMBDA tx : tx.from = a)

\* C6: monotone sequence.  In every reachable state, for every address the
\* executed transactions it sent carry, in chain order, the sequence numbers
\* 0, 1, 2, ... with no gap and no repeat, and sequences[address] equals
\* their number.
C6_MonotoneSequence ==
    \A a \in Addresses :
        /\ \A i \in 1..Len(SentBy(a)) : SentBy(a)[i].nonce = i - 1
        /\ worldState.nonces[a] = Len(SentBy(a))

\* two blocks have each executed a transaction of the same sender
C6_Witness ==
    /\ worldState.latestBlockHeight = 2
    /\ DOMAIN executed = 0..2
    /\ \E a \in Senders :
          /\ Len(SentBy(a)) = 2
          /\ executed[1] # <<>>
          /\ executed[2] # <<>>

NoRepeat(seq) == \A i, j \in 1..Len(seq) : seq[i] = seq[j] => i = j

RECURSIVE BlockTxHashesUpTo(_)
BlockTxHashesUpTo(h) ==
    IF h < 0 THEN <<>>
    ELSE BlockTxHashesUpTo(h - 1) \o
         (IF h \in DOMAIN blockHistory THEN TxHashes(blockHistory[h].transactions)
          ELSE <<>>)

\* the transaction hashes of the transaction lists of all committed blocks
CommittedTxHashes == BlockTxHashesUpTo(MaxHeight)

\* C7: in every reachable state a transaction hash occurs at most once in the
\* pending queue and at most once across the transaction lists of all
\* committed blocks.
C7_HashAtMostOnce ==
    /\ NoRepeat(TxHashes(pendingQueue.transactions))
    /\ NoRepeat(CommittedTxHashes)

\* C8: one in-flight transaction per sender.  In every reachable state the
\* queue holds no two transactions of one sender: of two distinct
\* transactions of a sender with the same sequence number, submitted with no
\* commit in between, only one is admitted.
C8_OneInFlight ==
    \A i, j \in 1..Len(pendingQueue.transactions) :
        pendingQueue.transactions[i].from = pendingQueue.transactions[j].from => i = j

\* a queued transaction that passes the sequence and the balance check against
\* the committed state
Executable(tx) ==
    /\ tx.nonce = worldState.nonces[tx.from]
    /\ worldState.balances[tx.from] >= tx.amount

QueueHasExecutable ==
    \E i \in 1..Len(pendingQueue.transactions) : Executable(pendingQueue.transactions[i])

\* C9: no halt on a bad transaction.  Under repeated triggers with all
\* validators honest and responsive, whenever the initialised chain stands at
\* a height n and the queue holds an executable transaction, whatever else it
\* holds, a block is eventually committed above n.
C9_NoHalt ==
    \A n \in 0..(MaxHeight - 1) :
        (Initialised /\ worldState.latestBlockHeight = n /\ QueueHasExecutable)
            ~> (worldState.latestBlockHeight > n)

\* C10: every admitted transaction is confirmed.  With honest responsive
\* validators and nothing but the gateway's own triggers and the alarm, a
\* transaction in the queue of the initialised chain is eventually in the
\* transaction list of a committed block.
C10_EventuallyConfirmed ==
    \A tx \in ApiTxs :
        (Initialised /\ InQueue(tx))
            ~> (\E i \in 1..Len(CommittedTxHashes) : CommittedTxHashes[i] = tx.hash)

\* the trigger handlers that hold a round: past the lock, not yet returned
RoundsInProgress == { r \in Triggers : rounds[r].pc # "idle" }

\* the stored lock is held and younger than consensusTimeoutMs
LockFresh ==
    /\ pendingQueue.processing
    /\ pendingQueue.processingAge # NoAge
    /\ pendingQueue.processingAge < consensusTimeoutMs

\* C11 as stated: rounds are mutually exclusive; in every reachable state at
\* most one trigger is past the lock without having committed or released.
C11_MutualExclusion == Cardinality(RoundsInProgress) <= 1

\* C11, amended: no trigger acquires the lock while the stored lock is held
\* and younger than consensusTimeoutMs; a trigger acquires it only when it is
\* free or stale.
C11_FreshLockExcludes ==
    [][ \A r \in Triggers : TriggerAcquire(r) => ~LockFresh ]_vars

\* a round holds a fresh lock over a non-empty queue while another handler
\* slot is free for a trigger to arrive
C11_Witness ==
    /\ LockFresh
    /\ Cardinality(RoundsInProgress) = 1
    /\ Len(pendingQueue.transactions) > 0
    /\ \E r \in Triggers : rounds[r].pc = "packed"

\* the block does not extend the chain: WrongHeight or WrongParent
WrongHeightOrParent(block) ==
    \/ block.header.height # worldState.latestBlockHeight + 1
    \/ block.header.prevHash # worldState.latestBlockHash

\* C12: at-most-once commit.  A commitBlock of a block with the wrong height
\* or the wrong parent leaves the coordinator unchanged; every commitBlock
\* that stores a block was given one with height latestHeight+1 and prevHash
\* latestHash; and every block of the history is such a wrong block, so
\* submitting it again fails.
C12_AtMostOnce ==
    [][ /\ \A r \in Triggers, snapPre \in BOOLEAN :
              ( /\ rounds[r].pc = "commit"
                /\ WrongHeightOrParent(rounds[r].block)
                /\ TriggerCommit(r, snapPre) )
                  => UNCHANGED coordinator
        /\ ( /\ rounds' = rounds
             /\ worldState'.latestBlockHeight # worldState.latestBlockHeight )
              => \A block \in CallerBlocks, snapPre \in BOOLEAN :
                    \A votes \in VoteLists(block) :
                        CallCommitBlock(block, votes, snapPre)
                            => ~WrongHeightOrParent(block)
        /\ \A h \in DOMAIN blockHistory :
              /\ WrongHeightOrParent(blockHistory[h])
              /\ ~commitBlockOk(blockHistory[h], blockHistory[h].votes)
      ]_vars

\* two rounds held the same block; one has committed it and the other is
\* about to submit it again
C12_Witness ==
    \E r \in Triggers :
        /\ rounds[r].pc = "commit"
        /\ rounds[r].block.header.height \in DOMAIN blockHistory
        /\ blockHistory[rounds[r].block.header.height] = rounds[r].block
        /\ WrongHeightOrParent(rounds[r].block)

QueueHashes(q) == { q.transactions[i].hash : i \in 1..Len(q.transactions) }

\* the step commits a block at the next height that executes tx
ExecutedByStep(tx) ==
    LET h == worldState.latestBlockHeight + 1
    IN  /\ worldState'.latestBlockHeight = h
        /\ h \in DOMAIN executed'
        /\ \E i \in 1..Len(executed'[h]) : executed'[h][i] = tx

\* C13: no lost transactions.  In every step other than an initGenesis or a
\* release with clearQueue = true, a transaction that is in the queue before
\* the step and not after it has been executed by a block the step commits.
C13_NoLostTransactions ==
    [][ \/ \E force \in BOOLEAN : CallInitGenesis(force)
        \/ CallReleaseLock(TRUE)
        \/ \A i \in 1..Len(pendingQueue.transactions) :
              pendingQueue.transactions[i].hash \notin QueueHashes(pendingQueue')
                  => ExecutedByStep(pendingQueue.transactions[i])
      ]_vars

\* RoundInProgress as the contract words it
RoundInProgress ==
    pendingQueue.processing /\ pendingQueue.processingAge < consensusTimeoutMs

\* C14: acquireProcessingLock fails with RoundInProgress exactly when
\* processing is set and the lock is younger than consensusTimeoutMs;
\* otherwise it fails with Empty when the queue is empty; otherwise, the lock
\* being free or stale, it succeeds, and the step that acquires sets
\* processing and restarts processingStartedAt, changing nothing else stored.
C14_AcquireContract ==
    [][ /\ (acquireProcessingLockError = "Processing in progress") <=> RoundInProgress
        /\ (~RoundInProgress /\ pendingQueue.transactions = <<>>)
              => acquireProcessingLockError = "No pending transactions"
        /\ (~RoundInProgress /\ pendingQueue.transactions # <<>>)
              => acquireProcessingLockOk
        /\ \A r \in Triggers :
              TriggerAcquire(r) =>
                  /\ ~RoundInProgress
                  /\ pendingQueue' = [pendingQueue EXCEPT !.processing = TRUE,
                                                          !.processingAge = 0,
                                                          !.holder = r]
                  /\ UNCHANGED <<worldState, blockHistory, consensusConfig, executed>>
      ]_vars

\* a round holds the lock, the lock has grown older than consensusTimeoutMs,
\* and the queue is not empty: the next trigger takes the lock over
C14_Witness ==
    /\ pendingQueue.processing
    /\ pendingQueue.processingAge = consensusTimeoutMs
    /\ pendingQueue.transactions # <<>>
    /\ \E r \in Triggers : rounds[r].pc = "packed"
    /\ \E r \in Triggers : rounds[r].pc = "idle"

\* C17: a trigger that acquired the lock and returns without a commit, by a
\* failure path or through its catch block, leaves the lock released and the
\* queue as it was.
C17_LockReleasedOnFailure ==
    [][ \A r \in Triggers :
            (TriggerRelease(r) \/ \E reported \in BOOLEAN : TriggerCatch(r, reported))
                => /\ ~pendingQueue'.processing
                   /\ pendingQueue'.transactions = pendingQueue.transactions
      ]_vars

\* the step in which round r ends: its commit succeeds, or it releases
RoundEnds(r) ==
    \/ /\ rounds[r].pc = "commit"
       /\ commitBlockOk(rounds[r].block, rounds[r].block.votes)
       /\ \E snapPre \in BOOLEAN : TriggerCommit(r, snapPre)
    \/ TriggerRelease(r)

\* C19: the alarm is disarmed when a round ends.  After every step in which
\* a round commits or releases, no alarm is pending that could fire into a
\* later round.
C19_AlarmDisarmed ==
    [][ \A r \in Triggers : RoundEnds(r) => alarm' = "none" ]_vars

\* the lock is held and no handler is there to give it back
LockOrphaned ==
    /\ pendingQueue.processing
    /\ \A r \in Triggers : rounds[r].pc = "idle"

\* the proposer crashed after packBlock
Abandoned == LockOrphaned /\ pendingQueue.currentBlock # NoBlock

ExecutedHashes == TxHashes(ChainExecuted)

\* C15: watchdog rescue.  With triggers that keep arriving, every transaction
\* that is queued when a round has been abandoned after packBlock is
\* eventually executed by a committed block, and no transaction is ever
\* executed twice.
C15_WatchdogRescue ==
    /\ \A tx \in RetryTxs :
          (Initialised /\ Abandoned /\ InQueue(tx))
              ~> (\E i \in 1..Len(ExecutedHashes) : ExecutedHashes[i] = tx.hash)
    /\ [](NoRepeat(ExecutedHashes))

\* a round has been abandoned after packBlock and its lock has grown stale
C15_Witness ==
    /\ Initialised
    /\ Abandoned
    /\ pendingQueue.processingAge = consensusTimeoutMs
    /\ pendingQueue.transactions # <<>>

\* C16: quorum loss.  When fewer than requiredSignatures validators answer, the
\* round commits nothing and goes on to release; the release clears the lock
\* and leaves queue, world state and history as they were; and with triggers
\* that keep arriving and validators that answer again, a block is then
\* committed above the height at which the round failed.
C16_QuorumLoss ==
    /\ [][ \A r \in Triggers :
              /\ (\E responders \in SUBSET GenesisValidators :
                     /\ Cardinality(responders) < cache.requiredSignatures
                     /\ TriggerCollect(r, responders))
                    => (rounds'[r].pc = "release" /\ UNCHANGED coordinator)
              /\ TriggerRelease(r)
                    => /\ ~pendingQueue'.processing
                       /\ pendingQueue'.transactions = pendingQueue.transactions
                       /\ UNCHANGED <<worldState, blockHistory>>
          ]_vars
    /\ \A n \in 0..(MaxHeight - 1) :
          ( /\ Initialised
            /\ worldState.latestBlockHeight = n
            /\ pendingQueue.transactions # <<>>
            /\ \E r \in Triggers : rounds[r].pc = "release" )
              ~> (worldState.latestBlockHeight > n)

\* a round of the initialised chain got too few votes for its block and is
\* about to release the lock, the transaction still queued
C16_Witness ==
    /\ Initialised
    /\ pendingQueue.processing
    /\ pendingQueue.currentBlock # NoBlock
    /\ pendingQueue.transactions # <<>>
    /\ \E r \in Triggers : rounds[r].pc = "release"

\* C18: watchdog safety net.  A lock whose proposer is gone (crashed before
\* or after packBlock) is eventually cleared by the alarm alone, with no
\* further request from outside, and the alarm leaves the queued
\* transactions where they are.
C18_WatchdogSafetyNet ==
    /\ (Initialised /\ LockOrphaned)
          ~> (~pendingQueue.processing \/ \E r \in Triggers : rounds[r].pc # "idle")
    /\ [][AlarmFires => pendingQueue'.transactions = pendingQueue.transactions]_vars

\* C20: alarm fallback.  With an alarm pending while transactions wait in the
\* queue of the initialised chain, the alarm's firing gets a block committed:
\* the height grows without any further trigger having to arrive.
C20_AlarmFallback ==
    \A n \in 0..(MaxHeight - 1) :
        ( /\ Initialised
          /\ alarm = "pending"
          /\ pendingQueue.transactions # <<>>
          /\ worldState.latestBlockHeight = n )
            ~> (worldState.latestBlockHeight > n)

\* the invocation r packs or commits in this step without being the one whose
\* acquireProcessingLock set the lock that is held
ForeignStep(r) ==
    /\ r # pendingQueue.holder
    /\ rounds[r].pc \in {"locked", "commit"}
    /\ rounds'[r].pc # rounds[r].pc

\* C21: while the lock is held, a step of packBlock or commitBlock changes
\* world state or block history only as the commit of the invocation that
\* holds the lock, and a packBlock or commitBlock of any other invocation
\* changes neither world state nor history nor currentBlock.
C21_OnlyHolderMutates ==
    [][ ( /\ pendingQueue.processing
          /\ ~BackupFinish(TRUE)
          /\ ~(\E force \in BOOLEAN : CallInitGenesis(force)) )
        => /\ (worldState' # worldState \/ blockHistory' # blockHistory)
                 => \E r \in Triggers :
                       /\ r = pendingQueue.holder
                       /\ rounds[r].pc = "commit"
                       /\ rounds'[r].pc = "idle"
           /\ \A r \in Triggers :
                 ForeignStep(r)
                     => /\ UNCHANGED <<worldState, blockHistory>>
                        /\ pendingQueue'.currentBlock = pendingQueue.currentBlock
      ]_vars

\* C22: addTransaction is all-or-nothing.  A transaction whose hash is in the
\* queue is rejected as a duplicate, else one whose nonce is not the sender's
\* stored nonce as a sequence mismatch, else one whose amount exceeds the
\* sender's stored balance for insufficient balance; a rejected call changes
\* nothing stored; and every step that admits a transaction appends exactly
\* that transaction at the tail of the queue and changes nothing else stored.
C22_AddAllOrNothing ==
    [][ \A tx \in AllTxs :
          /\ InQueue(tx) => addTransactionError(tx) = "Transaction already in queue"
          /\ (~InQueue(tx) /\ tx.nonce # worldState.nonces[tx.from])
                => addTransactionError(tx) = "Invalid nonce"
          /\ ( /\ ~InQueue(tx)
               /\ tx.nonce = worldState.nonces[tx.from]
               /\ worldState.balances[tx.from] < tx.amount )
                => addTransactionError(tx) = "Insufficient balance"
          /\ (~addTransactionOk(tx) /\ addTransaction(tx)) => UNCHANGED persisted
          /\ SubmitTransaction(tx)
                => /\ addTransactionError(tx) = "none"
                   /\ ~InQueue(tx)
                   /\ pendingQueue' =
                         [pendingQueue EXCEPT !.transactions = Append(@, tx)]
                   /\ UNCHANGED <<worldState, blockHistory, consensusConfig, executed>>
      ]_vars

\* two transactions were admitted one behind the other while a round holds
\* the lock on a packed block; a third call with either of them is a duplicate
C22_Witness ==
    /\ Initialised
    /\ Len(pendingQueue.transactions) = 2
    /\ pendingQueue.processing
    /\ pendingQueue.currentBlock # NoBlock
    /\ Len(pendingQueue.currentBlock.transactions) = 1

\* the queued transactions of one sender, in queue order
QueuedOf(a) == SelectSeq(pendingQueue.transactions, LAMBDA tx : tx.from = a)

\* the queued transactions of the sender carry the sequence numbers that
\* follow its stored one, without a gap
QueueContiguous(a) ==
    \A i \in 1..Len(QueuedOf(a)) :
        QueuedOf(a)[i].nonce = worldState.nonces[a] + (i - 1)

\* tx is the next of a batch: a positive amount, the next sequence number
\* after the sender's queued ones, and a balance that covers the whole batch
NextOfBatch(tx) ==
    /\ tx.amount > 0
    /\ QueueContiguous(tx.from)
    /\ \A i \in 1..Len(QueuedOf(tx.from)) : QueuedOf(tx.from)[i].amount > 0
    /\ tx.nonce = worldState.nonces[tx.from] + Len(QueuedOf(tx.from))
    /\ SumAmounts(QueuedOf(tx.from)) + tx.amount <= worldState.balances[tx.from]

\* C23: a batch can be queued.  While the queue holds fewer than blockMaxTxs
\* transactions, the next valid transaction of a funded sender's batch, with
\* the sequence number that follows the ones already queued, is admitted by
\* addTransaction, so that one trigger can pack the whole batch into a block.
C23_BatchAdmitted ==
    \A tx \in AllTxs :
        ( /\ Initialised
          /\ Len(pendingQueue.transactions) < blockMaxTxs
          /\ NextOfBatch(tx) )
            => addTransactionOk(tx)

CommitTaken ==
    /\ worldState'.latestBlockHeight = worldState.latestBlockHeight + 1
    /\ ~BackupFinish(TRUE)
    /\ ~(\E force \in BOOLEAN : CallInitGenesis(force))

\* C25: reads are not torn by a commit.  Every query answers from the stored
\* record as it is before or as it is after a commitBlock, and the two
\* differ by the whole commit: once the latest height is the new one, the
\* balances and sequences are the new ones and the new block can be read;
\* every transaction of the new block is then reported confirmed and is no
\* longer in the queue; and every transaction that was in the queue before
\* is afterwards still reported, pending or confirmed.
C25_ReadsNotTorn ==
    [][ CommitTaken =>
          \A h \in 1..MaxHeight :
            h = queryLatestBlock'.height =>
              LET ex == executed'[h]
                  sent(a) == SelectSeq(ex, LAMBDA tx : tx.from = a)
                  received(a) == SelectSeq(ex, LAMBDA tx : tx.to = a)
              IN  /\ queryState'.worldState.latestBlockHeight = h
                  /\ queryLatestBlock'.hash = queryBlock(h)'.block.hash
                  /\ queryBlock(h).block = NoBlock
                  /\ queryBlock(h)'.confirmations = 1
                  /\ \A a \in Addresses :
                        /\ queryAccount(a)'.balance =
                              queryAccount(a).balance - SumAmounts(sent(a))
                                                      + SumAmounts(received(a))
                        /\ queryAccount(a)'.nonce = queryAccount(a).nonce + Len(sent(a))
                        /\ queryState'.worldState.balances[a] = queryAccount(a)'.balance
                  /\ \A tx \in AllTxs :
                        /\ (\E i \in 1..Len(queryBlock(h)'.block.transactions) :
                                queryBlock(h)'.block.transactions[i] = tx)
                              => /\ queryTransaction(tx.hash)'.status = "confirmed"
                                 /\ tx.hash \notin QueueHashes(getPendingQueue')
                        /\ InQueue(tx) => queryTransaction(tx.hash)'.status # "not found"
                  /\ queryState'.pendingCount = Len(getPendingQueue'.transactions)
      ]_vars

\* C26: initGenesis is refused on a chain that has blocks.  With a stored
\* height above 0 an initGenesis without force fails as already initialised,
\* the client of POST /admin/init-genesis gets HTTP 409, and the call leaves
\* world state, queue, history and configuration as they are.
C26_InitRefused ==
    /\ []( worldState.latestBlockHeight > 0
            => /\ ~initGenesisOk(FALSE)
               /\ handleInitGenesis.status = HttpConflict
               /\ ~handleInitGenesis.body.success )
    /\ [][ (worldState.latestBlockHeight > 0 /\ initGenesis(FALSE))
              => UNCHANGED <<worldState, pendingQueue, blockHistory, consensusConfig>>
        ]_vars

\* C27: in every reachable state the stored configuration asks for two
\* thirds of its validators, rounded up:
\* requiredSignatures = ceil(2 * |validators| / 3).
C27_RequiredIsTwoThirds ==
    consensusConfig.requiredSignatures
        = Ceil2Thirds(Cardinality(consensusConfig.validators))

\* C28: anti-rollback restore.  A restore replaces the stored state only
\* when the supplied cid is that of the latest entry of the backup index and
\* the chain is at height 0 or force is set, and the state it stores is not
\* older than the backup that entry records.
C28_AntiRollback ==
    [][ \A state \in RestoreStates, cid \in Cids, force \in BOOLEAN :
          ( /\ rounds' = rounds
            /\ CallRestore(state, cid, force) )
              => /\ cid = LatestCid
                 /\ backup.recorded # NoHeight
                 /\ worldState.latestBlockHeight = 0 \/ force
                 /\ worldState'.latestBlockHeight >= backup.recorded
      ]_vars

\* C29: the fan-out ends.  Whatever the validators do, a validator that
\* never answers included, a handler that is collecting votes for its packed
\* block leaves that step and goes on to commit or to release the lock.
C29_FanOutEnds ==
    \A r \in Triggers :
        (rounds[r].pc = "packed") ~> (rounds[r].pc \in {"commit", "release", "idle"})

\* the outcome of the single transfer tx on the chain that genesis left
TransferDone(tx) ==
    /\ worldState.latestBlockHeight = 1
    /\ worldState.balances[tx.from] = Premine[tx.from] - tx.amount
    /\ worldState.balances[tx.to] = Premine[tx.to] + tx.amount
    /\ worldState.nonces[tx.from] = 1
    /\ pendingQueue.transactions = <<>>
    /\ ~pendingQueue.processing
    /\ queryTransaction(tx.hash) = [status |-> "confirmed", blockHeight |-> 1]

\* the transfers a funded sender can make first: sequence 0 and an amount
\* that the premine covers
FirstTransfers == { tx \in RetryTxs : tx.nonce = 0 /\ tx.amount <= Premine[tx.from] }

\* C30: genesis, then a single transfer.  On the chain as genesis left it,
\* with the premined balances, a transfer of a covered amount with sequence 0
\* is admitted; the commit of the round that packed it yields height 1, the
\* sender's balance lowered and the receiver's raised by the amount, the
\* sender's sequence 1, an empty queue, a released lock and the transaction
\* reported as confirmed; and with a trigger arriving that commit happens.
C30_SingleTransfer ==
    /\ [][ \A tx \in FirstTransfers :
              /\ worldState = GenesisRecord.worldState
                    => addTransactionOk(tx) \/ InQueue(tx)
              /\ ( /\ worldState = GenesisRecord.worldState
                   /\ pendingQueue.transactions = <<tx>>
                   /\ \E r \in Triggers, snapPre \in BOOLEAN :
                         /\ rounds[r].pc = "commit"
                         /\ TriggerCommit(r, snapPre) )
                    => TransferDone(tx)'
          ]_vars
    /\ \A tx \in FirstTransfers :
          ( /\ worldState = GenesisRecord.worldState
            /\ blockHistory = GenesisRecord.blockHistory
            /\ pendingQueue.transactions = <<tx>> )
              ~> TransferDone(tx)

\* the single transfer of 1 from A to B has been committed in block 1 and
\* every handler has returned
C30_Witness ==
    /\ TransferDone(MkTx("A", "B", 1, 0))
    /\ executed[1] = <<MkTx("A", "B", 1, 0)>>
    /\ worldState.balances = [a \in Addresses |-> IF a = "A" THEN 1 ELSE 2]
    /\ \A r \in Triggers : rounds[r].pc = "idle"

\* ------------------------------------------------------------------ C31
\* the step in which performBackup stores the record it holds
BackupWritesBack == backup.pc = "uploading" /\ backup'.pc = "idle" /\ ~backupDue'

\* C31: single-writer discipline.  Every writer of the persisted record
\* writes a modification of the record as it is stored at that moment: the
\* backup's write-back, which only stamps lastBackupTime, leaves worldState,
\* pendingQueue, blockHistory and consensusConfig as the last writer stored
\* them, so no admitted transaction and no committed block is overwritten by
\* a snapshot read before it was stored.
C31_SingleWriter ==
    [][BackupWritesBack =>
          /\ worldState' = worldState
          /\ pendingQueue' = pendingQueue
          /\ blockHistory' = blockHistory
          /\ consensusConfig' = consensusConfig]_vars

\* ------------------------------------------------------------------ C32
\* balances and sequences after commitBlock's execution loop has run over txs
CommitResult(ws, txs) ==
    LET run == CommitExec([balances |-> ws.balances, nonces |-> ws.nonces,
                           executed |-> <<>>], txs)
    IN  [balances |-> run.balances, nonces |-> run.nonces]

\* C32: for the stored world state and every prefix of the stored queue, the
\* balances and sequences that packBlock's stateRoot simulation produces are
\* those that commitBlock's execution of the same list produces, so the
\* stateRoot of the candidate block is the hash of the world state after its
\* commit.
C32_SimulationIsExecution ==
    \A n \in 0..Len(pendingQueue.transactions) :
        LET txs == SubSeq(pendingQueue.transactions, 1, n)
        IN  /\ StateRootSim([balances |-> worldState.balances,
                             nonces |-> worldState.nonces], txs)
                 = CommitResult(worldState, txs)
            /\ computeStateRoot(worldState, txs) = sha256Hex(CommitResult(worldState, txs))

\* ------------------------------------------------------------------ C33
\* C33: deterministic roots.  Whenever the queue is not empty, the block that
\* packBlock produces from the stored state carries the txRoot the validator
\* computes from its transactions and passes the validator's state-root
\* validation against that same state: a transaction that fails the running
\* sequence or balance check is skipped, the block is not rejected.
C33_PackedBlockAccepted ==
    packBlockOk =>
        LET block == PackedBlock(PROPOSER_ID)
        IN  /\ computeMerkleRoot(TxHashes(block.transactions)) = block.header.txRoot
            /\ validateStateRoot(block, worldState)

\* ------------------------------------------------------------------ C34
\* A block a proposer can send to a validator's /validate endpoint: any
\* transaction list under a header of its choice.  rootOf is the list whose
\* Merkle root the header carries; hashed tells whether block.hash is the
\* hash of the header.
ValidatorInput(height, prevHash, rootOf, txs, txCount, hashed) ==
    LET header == [height |-> height, prevHash |-> prevHash,
                   txRoot |-> computeMerkleRoot(TxHashes(rootOf)),
                   stateRoot |-> computeStateRoot(worldState, txs),
                   proposer |-> PROPOSER_ID, txCount |-> txCount]
    IN  [header |-> header, transactions |-> txs,
         hash |-> IF hashed THEN hashBlock(header) ELSE GENESIS_HASH,
         votes |-> <<>>]

\* the transaction lists of the blocks sent to a validator
ValidatorLists == {<<>>} \cup { <<tx>> : tx \in AllTxs }

\* the claim's conditions on a block, against the stored world state
SoundBlock(block) ==
    /\ block.hash = hashBlock(block.header)
    /\ Len(block.transactions) = block.header.txCount
    /\ block.header.txRoot = computeMerkleRoot(TxHashes(block.transactions))
    /\ \A i \in 1..Len(block.transactions) :
          LET tx == block.transactions[i]
          IN  /\ tx.hash = hashTransaction(tx.from, tx.to, tx.amount, tx.nonce)
              /\ tx.amount >= 0
    /\ block.header.height = worldState.latestBlockHeight + 1
    /\ block.header.prevHash = worldState.latestBlockHash
    /\ validateStateRoot(block, worldState)

\* C34: an honest validator that reads the stored world state answers
\* valid:true only for a block whose hash is the hash of its header, whose
\* txCount is the length of its transaction list, whose txRoot is the Merkle
\* root of its transaction hashes (also for the empty list), whose
\* transactions carry their own hash and a non-negative amount, whose height
\* and prevHash continue the stored chain, and whose stateRoot is the one the
\* validator recomputes.
C34_ValidOnlyIfSound ==
    \A height \in {worldState.latestBlockHeight, worldState.latestBlockHeight + 1},
       prevHash \in {worldState.latestBlockHash, hashBlock([height |-> NoHeight])},
       rootOf \in { <<tx>> : tx \in AllTxs }, txs \in ValidatorLists,
       txCount \in 0..1, hashed \in BOOLEAN :
        LET block == ValidatorInput(height, prevHash, rootOf, txs, txCount, hashed)
        IN  validateBlock(block, worldState) => SoundBlock(block)

\* ------------------------------------------------------------------ C35
\* the round that takes the step from pc = from to pc = to
RoundStep(r, from, to) == rounds[r].pc = from /\ rounds'[r].pc = to

\* C35: packBlock puts the first min(blockMaxTxs, |queue|) queued transactions
\* into the candidate block in queue order, with height = latestHeight + 1
\* and prevHash = latestHash; commitBlock executes the block's transactions in
\* that order; the commit of a block whose transactions are all executed
\* takes exactly those transactions, blockMaxTxs for a full block, off the
\* front of the queue.
C35_FifoBatch ==
    [][\A r \in Triggers :
          /\ RoundStep(r, "locked", "packed") =>
                LET queue == pendingQueue.transactions
                    n == IF Len(queue) < blockMaxTxs THEN Len(queue) ELSE blockMaxTxs
                    block == rounds'[r].block
                IN  /\ Len(block.transactions) = n
                    /\ \A i \in 1..n : block.transactions[i] = queue[i]
                    /\ block.header.height = worldState.latestBlockHeight + 1
                    /\ block.header.prevHash = worldState.latestBlockHash
                    /\ pendingQueue'.currentBlock = block
          /\ (RoundStep(r, "commit", "idle") /\ commitBlockOk(rounds[r].block, rounds[r].block.votes)) =>
                LET queue == pendingQueue.transactions
                    block == rounds[r].block
                    h == block.header.height
                    n == Len(block.transactions)
                IN  /\ executed'[h] = block.transactions
                    /\ worldState'.balances = CommitResult(worldState, block.transactions).balances
                    /\ Len(pendingQueue'.transactions) = Len(queue) - n
                    /\ pendingQueue'.transactions = SubSeq(queue, n + 1, Len(queue))
                    /\ (n = blockMaxTxs =>
                          Len(pendingQueue'.transactions) = Len(queue) - blockMaxTxs)]_vars

\* a full block has been committed out of a longer queue: the transaction
\* after the first blockMaxTxs is what the queue still holds
C35_Witness ==
    /\ worldState.latestBlockHeight = 1
    /\ Len(executed[1]) = blockMaxTxs
    /\ \A i \in 1..blockMaxTxs : executed[1][i] = BatchTx(i)
    /\ pendingQueue.transactions = <<BatchTx(BatchSize)>>
    /\ \E r \in Triggers : rounds[r].pc = "idle"

\* ------------------------------------------------------------------ C36
RECURSIVE SumBalances(_, _)
SumBalances(balances, accounts) ==
    IF accounts = {} THEN 0
    ELSE LET a == CHOOSE x \in accounts : TRUE
         IN  balances[a] + SumBalances(balances, accounts \ {a})

\* all balances of the stored world state together
TotalBalance == SumBalances(worldState.balances, DOMAIN worldState.balances)

\* C36: conservation of supply.  The balances of the stored world state add
\* up to the total premined at genesis in every reachable state, so every
\* commitBlock leaves their sum as it was.
C36_SupplyConserved == TotalBalance = Supply

\* a commit has executed a transfer: the balances are no longer the premine
C36_Witness ==
    /\ worldState.latestBlockHeight > 0
    /\ Len(executed[worldState.latestBlockHeight]) > 0
    /\ worldState.balances # Premine

\* ------------------------------------------------------------------ C37
\* C37: every committed block is the block the quorum signed.  For each block
\* of the history above genesis, block.hash is the hash of its header, and
\* the header's txCount and txRoot are the length and the Merkle root of the
\* transaction list that commitBlock ran its execution loop over.
C37_CommittedIsSigned ==
    \A h \in DOMAIN blockHistory \ {0} :
        LET block == blockHistory[h]
        IN  /\ block.hash = hashBlock(block.header)
            /\ block.header.txCount = Len(block.transactions)
            /\ block.header.txRoot = computeMerkleRoot(TxHashes(block.transactions))

\* ------------------------------------------------------------------ C38
\* the invocation r ends with a release of the lock while the lock that is
\* held was set by another invocation's acquireProcessingLock
ForeignRelease(r) ==
    /\ pendingQueue.processing
    /\ pendingQueue.holder \in Triggers \ {r}
    /\ rounds[r].pc \in {"release", "catch"}
    /\ rounds'[r].pc = "idle"

\* C38: lock ownership.  The release that ends an invocation which does not
\* hold the lock (its lock was taken over as stale by a newer round) leaves
\* processing, processingStartedAt and currentBlock of the round in progress
\* as they are.
C38_ReleaseByOwnerOnly ==
    [][\A r \in Triggers :
          ForeignRelease(r) =>
              /\ pendingQueue'.processing = pendingQueue.processing
              /\ pendingQueue'.processingAge = pendingQueue.processingAge
              /\ pendingQueue'.currentBlock = pendingQueue.currentBlock]_vars

\* ------------------------------------------------------------------ C39
\* C39: amounts are non-negative everywhere.  No transaction in the queue has
\* a negative amount, and no transaction that a commit executed has one, so
\* no executed transaction adds to its sender's balance or takes from its
\* recipient's.
C39_NoNegativeAmount ==
    /\ \A i \in 1..Len(pendingQueue.transactions) :
          pendingQueue.transactions[i].amount >= 0
    /\ \A h \in DOMAIN executed : \A i \in 1..Len(executed[h]) :
          executed[h][i].amount >= 0

\* ------------------------------------------------------------------ C40
\* C40: the in-memory copies that the guards of initGenesis and restore, the
\* alarm's lock check and commitBlock's vote check read are those of the
\* persisted record: the latest block height, the processing flag, the
\* validator set and the required number of signatures.
C40_MemoryIsStorage ==
    cache = CacheOf(worldState, pendingQueue, consensusConfig)

====
